---- MODULE Spec2Model ----
(***************************************************************************)
(* The kanban service's "tickets" table (services/kanban/app/models/       *)
(* ticket.py) as a state machine: the stored rows, and the INSERT / UPDATE *)
(* / DELETE of one row under the column constraints the Ticket entity      *)
(* declares.  A title is a string, NULL is the SQL null, an identifier is  *)
(* a string that either is or is not a well-formed UUID.                   *)
(***************************************************************************)
EXTENDS Integers, Sequences, FiniteSets, TLC

VARIABLES
    tickets,    \* the stored rows of table "tickets"
    issued,     \* every id generated so far
    last,       \* the write being answered: its kind, target, fields and outcome
    projects,   \* ids the Project table holds (another service)
    users,      \* ids the Member service's users table holds
    base,       \* the table when the current batch of concurrent writes began
    batch,      \* the concurrent writes of the current batch
    pending,    \* those of them not yet executed
    outcome     \* the outcome of each executed write of the batch

vars == <<tickets, issued, last, projects, users, base, batch, pending, outcome>>

-----------------------------------------------------------------------------
(* Bounds *)

MaxTickets == 2
MaxProjects == 1
MaxUsers == 1
MaxUpdateCols == 2
MaxBatch == 2

-----------------------------------------------------------------------------
(* Values *)

NULL == "NULL"

TitleMax == 300

RECURSIVE Rep(_)
Rep(n) ==
    IF n = 0 THEN ""
    ELSE IF n % 2 = 1 THEN "x" \o Rep(n - 1)
    ELSE LET half == Rep(n \div 2) IN half \o half

TitleAtMax == Rep(TitleMax)
TitleOverMax == Rep(TitleMax + 1)

\* The members of app.models.enums.TicketStatus and Priority; ticket.py names
\* OPEN and MEDIUM, the others are the data model's.
TicketStatus == {"OPEN", "IN_PROGRESS", "DONE"}
Priority == {"LOW", "MEDIUM", "HIGH"}

StatusDefault == "OPEN"
PriorityDefault == "MEDIUM"

\* Ticket ids are the identifiers BaseModel generates; project and user ids
\* are UUIDs of other tables.
TicketIds == 1..MaxTickets
ProjectIds == {"P" \o ToString(i) : i \in 1..MaxProjects}
UserIds == {"U" \o ToString(i) : i \in 1..MaxUsers}
UUIDs == ProjectIds \cup UserIds
NotAUUID == "not-a-uuid"

Columns == {"title", "description", "status", "priority", "project_id", "assignee_id"}

-----------------------------------------------------------------------------
(* Column constraints *)

\* title = Column(String(300), nullable=False)
TitleOffByOne(v) == v # NULL /\ Len(v) < TitleMax
TitleUnbounded(v) == v # NULL
TitleOk(v) == v # NULL /\ Len(v) <= TitleMax

\* description = Column(Text, nullable=True)
DescriptionOk(v) == TRUE

\* status = Column(SQLEnum(TicketStatus), nullable=False)
StatusUnchecked(v) == v # NULL
StatusOk(v) == v \in TicketStatus

\* priority = Column(SQLEnum(Priority), nullable=False)
PriorityOk(v) == v \in Priority

\* project_id = Column(PG_UUID, nullable=False)
ProjectIdNullable(v) == v = NULL \/ v \in UUIDs
ProjectIdOk(v) == v \in UUIDs

\* assignee_id = Column(PG_UUID, nullable=True)
AssigneeIdOk(v) == v = NULL \/ v \in UUIDs

\* No ForeignKey on project_id or assignee_id: a reference is not looked up.
ReferenceEnforced(r) == r.project_id \in projects /\ (r.assignee_id = NULL \/ r.assignee_id \in users)
ReferenceOk(r) == TRUE

RowOk(r) ==
    /\ TitleOk(r.title)
    /\ DescriptionOk(r.description)
    /\ StatusOk(r.status)
    /\ PriorityOk(r.priority)
    /\ ProjectIdOk(r.project_id)
    /\ AssigneeIdOk(r.assignee_id)
    /\ ReferenceOk(r)

\* default=TicketStatus.OPEN, default=Priority.MEDIUM: applied on INSERT to a
\* column the new object leaves unset (None).
NoDefaults(f) == f
WithDefaults(f) ==
    [f EXCEPT !.status = IF @ = NULL THEN StatusDefault ELSE @,
              !.priority = IF @ = NULL THEN PriorityDefault ELSE @]

-----------------------------------------------------------------------------
(* Row operations: each yields the new table and the outcome *)

Ids(rows) == {r.id : r \in rows}
RowOf(rows, id) == CHOOSE r \in rows : r.id = id

NewRow(id, f) ==
    LET d == WithDefaults(f)
    IN  [id |-> id, title |-> d.title, description |-> d.description,
         status |-> d.status, priority |-> d.priority,
         project_id |-> d.project_id, assignee_id |-> d.assignee_id]

InsertUniqueTitle(rows, id, f) ==
    LET r == NewRow(id, f)
    IN  IF RowOk(r) /\ \A o \in rows : o.title # r.title
        THEN [rows |-> rows \cup {r}, result |-> "ok"]
        ELSE [rows |-> rows, result |-> "ValidationError"]

Insert(rows, id, f) ==
    LET r == NewRow(id, f)
    IN  IF RowOk(r)
        THEN [rows |-> rows \cup {r}, result |-> "ok"]
        ELSE [rows |-> rows, result |-> "ValidationError"]

\* An update assigns the columns of u, a function on a subset of Columns; a
\* NULL in u sets the column to NULL (no default applies on UPDATE).
Assigned(old, u) ==
    [c \in DOMAIN old |-> IF c \in DOMAIN u THEN u[c] ELSE old[c]]

AssignedValidOnly(old, u) ==
    [c \in DOMAIN old |->
        IF c \in DOMAIN u /\ RowOk([old EXCEPT ![c] = u[c]]) THEN u[c] ELSE old[c]]

UpdatePartial(rows, id, u) ==
    LET old == RowOf(rows, id)
        new == Assigned(old, u)
    IN  IF RowOk(new)
        THEN [rows |-> (rows \ {old}) \cup {new}, result |-> "ok"]
        ELSE [rows |-> (rows \ {old}) \cup {AssignedValidOnly(old, u)},
              result |-> "ValidationError"]

UpdateRow(rows, id, u) ==
    LET old == RowOf(rows, id)
        new == Assigned(old, u)
    IN  IF RowOk(new)
        THEN [rows |-> (rows \ {old}) \cup {new}, result |-> "ok"]
        ELSE [rows |-> rows, result |-> "ValidationError"]

DeleteRow(rows, id) ==
    [rows |-> {r \in rows : r.id # id}, result |-> "ok"]

-----------------------------------------------------------------------------
(* Requests *)

NoFields == [c \in {} |-> NULL]
Idle == [kind |-> "none", id |-> 0, fields |-> NoFields, result |-> "ok"]

Partial(In(_), cols) ==
    LET all == UNION {In(c) : c \in cols}
        sets == {S \in SUBSET cols : S # {} /\ Cardinality(S) <= MaxUpdateCols}
    IN  UNION {{u \in [S -> all] : \A c \in S : u[c] \in In(c)} : S \in sets}

TitleIn == {NULL, "", "Fix login bug", TitleAtMax, TitleOverMax}
StatusIn == {NULL, "DONE", "ARCHIVED"}
PriorityIn == {NULL, "HIGH", "URGENT"}
ProjectIdIn == {NULL, "P1"}

CreateFields ==
    [title : TitleIn, description : {NULL}, status : StatusIn,
     priority : PriorityIn, project_id : ProjectIdIn, assignee_id : {NULL}]

UpdateIn(c) ==
    CASE c = "title" -> TitleIn
      [] c = "status" -> StatusIn
      [] c = "priority" -> PriorityIn

UpdateFields == Partial(UpdateIn, {"title", "status", "priority"})

-----------------------------------------------------------------------------
(* The table, one write at a time *)

Init ==
    /\ tickets = {}
    /\ issued = {}
    /\ last = Idle
    /\ projects = {}
    /\ users = {}
    /\ base = {}
    /\ batch = {}
    /\ pending = {}
    /\ outcome = NoFields

\* A generated id is one never generated before.
AnyId == TicketIds
NewId == TicketIds \ issued

DoCreate(F) ==
    /\ last = Idle
    /\ \E id \in NewId, f \in F :
        LET out == Insert(tickets, id, f)
        IN  /\ tickets' = out.rows
            /\ issued' = issued \cup {id}
            /\ last' = [kind |-> "create", id |-> id, fields |-> f, result |-> out.result]
    /\ UNCHANGED <<projects, users, base, batch, pending, outcome>>

DoUpdate(U) ==
    /\ last = Idle
    /\ \E id \in Ids(tickets), u \in U :
        LET out == UpdateRow(tickets, id, u)
        IN  /\ tickets' = out.rows
            /\ last' = [kind |-> "update", id |-> id, fields |-> u, result |-> out.result]
    /\ UNCHANGED <<issued, projects, users, base, batch, pending, outcome>>

Create == DoCreate(CreateFields)

Update == DoUpdate(UpdateFields)

Delete ==
    /\ last = Idle
    /\ \E id \in Ids(tickets) :
        LET out == DeleteRow(tickets, id)
        IN  /\ tickets' = out.rows
            /\ last' = [kind |-> "delete", id |-> id, fields |-> NoFields, result |-> out.result]
    /\ UNCHANGED <<issued, projects, users, base, batch, pending, outcome>>

\* The caller has its answer; the next write may begin.
Return ==
    /\ last # Idle
    /\ last' = Idle
    /\ UNCHANGED <<tickets, issued, projects, users, base, batch, pending, outcome>>

Next == Create \/ Update \/ Delete \/ Return

Spec == Init /\ [][Next]_vars

-----------------------------------------------------------------------------
(* The table next to the Project table and the Member service's users *)

\* What the deletion of a referenced project or user does to the tickets:
\* nothing, the columns carry no ForeignKey and so no ON DELETE action.
CascadeDelete(rows, col, v) == {r \in rows : r[col] # v}
OnReferencedDelete(rows, col, v) == rows

DescriptionIn == {NULL, "steps"}
RefProjectIdIn == {NULL, NotAUUID} \cup ProjectIds
RefAssigneeIdIn == {NULL, NotAUUID} \cup UserIds

RefCreateFields ==
    [title : {"Fix login bug"}, description : DescriptionIn, status : {NULL},
     priority : {NULL}, project_id : RefProjectIdIn, assignee_id : RefAssigneeIdIn]

RefUpdateIn(c) ==
    CASE c = "description" -> DescriptionIn
      [] c = "project_id" -> {NULL} \cup ProjectIds
      [] c = "assignee_id" -> {NULL} \cup UserIds

RefUpdateFields == Partial(RefUpdateIn, {"description", "project_id", "assignee_id"})

CreateRef == DoCreate(RefCreateFields)

UpdateRef == DoUpdate(RefUpdateFields)

External(kind, col, v) ==
    [kind |-> kind, id |-> 0, fields |-> [c \in {col} |-> v], result |-> "ok"]

ProjectCreated ==
    /\ last = Idle
    /\ \E p \in ProjectIds \ projects :
        /\ projects' = projects \cup {p}
        /\ last' = External("project_created", "project_id", p)
    /\ UNCHANGED <<tickets, issued, users, base, batch, pending, outcome>>

ProjectDeleted ==
    /\ last = Idle
    /\ \E p \in projects :
        /\ projects' = projects \ {p}
        /\ tickets' = OnReferencedDelete(tickets, "project_id", p)
        /\ last' = External("project_deleted", "project_id", p)
    /\ UNCHANGED <<issued, users, base, batch, pending, outcome>>

UserCreated ==
    /\ last = Idle
    /\ \E a \in UserIds \ users :
        /\ users' = users \cup {a}
        /\ last' = External("user_created", "assignee_id", a)
    /\ UNCHANGED <<tickets, issued, projects, base, batch, pending, outcome>>

UserDeleted ==
    /\ last = Idle
    /\ \E a \in users :
        /\ users' = users \ {a}
        /\ tickets' = OnReferencedDelete(tickets, "assignee_id", a)
        /\ last' = External("user_deleted", "assignee_id", a)
    /\ UNCHANGED <<issued, projects, base, batch, pending, outcome>>

NextRefs ==
    \/ CreateRef
    \/ UpdateRef
    \/ Delete
    \/ Return
    \/ ProjectCreated
    \/ ProjectDeleted
    \/ UserCreated
    \/ UserDeleted

SpecRefs == Init /\ [][NextRefs]_vars

-----------------------------------------------------------------------------
(* Concurrent writes: a batch of writes on distinct tickets, executed one  *)
(* row statement at a time in whatever order the storage engine picks      *)

Exec(rows, op) ==
    CASE op.kind = "create" -> Insert(rows, op.id, op.fields)
      [] op.kind = "update" -> UpdateRow(rows, op.id, op.fields)
      [] op.kind = "delete" -> DeleteRow(rows, op.id)

ConcCreateFields ==
    [title : {"Fix login bug", TitleOverMax}, description : {NULL},
     status : {NULL, "DONE"}, priority : {NULL}, project_id : {"P1"},
     assignee_id : {NULL}]

ConcUpdateFields ==
    {[status |-> "IN_PROGRESS"], [title |-> ""],
     [title |-> TitleOverMax, status |-> "DONE"]}

Writes ==
    [kind : {"create"}, fields : ConcCreateFields]
        \cup [kind : {"update"}, fields : ConcUpdateFields]
        \cup [kind : {"delete"}, fields : {NoFields}]

Applicable(w, id) ==
    IF w.kind = "create" THEN id \in NewId ELSE id \in Ids(tickets)

Begin ==
    /\ pending = {}
    /\ \E I \in SUBSET TicketIds :
        /\ I # {}
        /\ Cardinality(I) <= MaxBatch
        /\ \E w \in [I -> Writes] :
            /\ \A id \in I : Applicable(w[id], id)
            /\ batch' = {[kind |-> w[id].kind, id |-> id, fields |-> w[id].fields] : id \in I}
            /\ issued' = issued \cup {id \in I : w[id].kind = "create"}
    /\ pending' = batch'
    /\ base' = tickets
    /\ outcome' = NoFields
    /\ UNCHANGED <<tickets, last, projects, users>>

Commit ==
    /\ \E op \in pending :
        LET out == Exec(tickets, op)
        IN  /\ tickets' = out.rows
            /\ pending' = pending \ {op}
            /\ outcome' = [o \in DOMAIN outcome \cup {op} |->
                              IF o = op THEN out.result ELSE outcome[o]]
    /\ UNCHANGED <<issued, last, projects, users, base, batch>>

NextConc == Begin \/ Commit

SpecConc == Init /\ [][NextConc]_vars

-----------------------------------------------------------------------------
(* Properties *)

IsWrite == last.kind \in {"create", "update"}
Accepted == last.result = "ok"
Rejected == last.result = "ValidationError"
Arg(c) == last.fields[c]

\* the write supplies a value for column c (a create's NULL is an omission)
Given(c) == c \in DOMAIN last.fields /\ (last.kind = "create" => Arg(c) # NULL)

\* every value the write supplies satisfies its column, and a create
\* supplies the two columns that have neither default nor NULL
WriteAcceptable ==
    /\ IF Given("title")
       THEN Arg("title") # NULL /\ Len(Arg("title")) <= 300
       ELSE last.kind = "update"
    /\ Given("status") => Arg("status") \in TicketStatus
    /\ Given("priority") => Arg("priority") \in Priority
    /\ IF Given("project_id")
       THEN Arg("project_id") \in UUIDs
       ELSE last.kind = "update"
    /\ Given("assignee_id") => (Arg("assignee_id") = NULL \/ Arg("assignee_id") \in UUIDs)

Stored == RowOf(tickets, last.id)

\* C1: a create that omits status stores OPEN, one that omits priority
\* stores MEDIUM, one that omits assignee_id stores NULL, and the omission
\* does not make the create fail; a supplied valid status or priority is
\* stored as supplied.
C1_Defaults ==
    last.kind = "create" =>
        /\ WriteAcceptable => Accepted
        /\ Accepted =>
            /\ Stored.status = IF Given("status") THEN Arg("status") ELSE "OPEN"
            /\ Stored.priority = IF Given("priority") THEN Arg("priority") ELSE "MEDIUM"
            /\ ~Given("assignee_id") => Stored.assignee_id = NULL

C1_Witness ==
    /\ last.kind = "create"
    /\ Accepted
    /\ Arg("title") = "Fix login bug"
    /\ ~Given("status")
    /\ ~Given("priority")
    /\ Stored.status = "OPEN"
    /\ Stored.priority = "MEDIUM"

\* C2: a create or update whose title is longer than 300 characters fails
\* with ValidationError; a title of exactly 300 characters is accepted.
C2_TitleLength ==
    (IsWrite /\ Given("title") /\ Arg("title") # NULL) =>
        /\ Len(Arg("title")) > 300 => Rejected
        /\ (Len(Arg("title")) = 300 /\ WriteAcceptable) =>
              (Accepted /\ Stored.title = Arg("title"))

C2_Witness ==
    /\ last.kind = "create"
    /\ Arg("title") # NULL
    /\ Len(Arg("title")) = 301
    /\ Arg("project_id") \in ProjectIds
    /\ Rejected

\* C3: a create or update that sets status or priority to a value outside
\* its enumerated set fails with ValidationError, and every stored ticket's
\* status and priority are members of TicketStatus and Priority.
C3_EnumMembership ==
    /\ (IsWrite /\ Given("status") /\ Arg("status") \notin TicketStatus) => Rejected
    /\ (IsWrite /\ Given("priority") /\ Arg("priority") \notin Priority) => Rejected
    /\ \A r \in tickets : r.status \in TicketStatus /\ r.priority \in Priority

C3_Witness ==
    /\ last.kind = "update"
    /\ Given("status")
    /\ Arg("status") = "ARCHIVED"
    /\ Rejected
    /\ Stored.status \in TicketStatus

\* C4: a create that omits project_id fails, a write that sets project_id
\* to NULL fails, and every stored ticket has a non-NULL project_id.
C4_ProjectIdRequired ==
    /\ (last.kind = "create" /\ ~Given("project_id")) => Rejected
    /\ (last.kind = "update" /\ Given("project_id") /\ Arg("project_id") = NULL) => Rejected
    /\ \A r \in tickets : r.project_id # NULL

C4_Witness ==
    /\ last.kind = "create"
    /\ Arg("title") = "Fix login bug"
    /\ Arg("project_id") = NULL
    /\ Rejected

\* C5: assignee_id may be omitted and is then stored as NULL; a write that
\* supplies well-formed identifiers is accepted and stored whether or not a
\* project or user with that identifier exists.
C5_NoExistenceCheck ==
    /\ (IsWrite /\ WriteAcceptable) =>
          /\ Accepted
          /\ Given("project_id") => Stored.project_id = Arg("project_id")
          /\ Given("assignee_id") => Stored.assignee_id = Arg("assignee_id")
    /\ (last.kind = "create" /\ Accepted /\ ~Given("assignee_id")) =>
          Stored.assignee_id = NULL

C5_Witness ==
    /\ IsWrite
    /\ Accepted
    /\ Given("project_id")
    /\ Given("assignee_id")
    /\ Stored.project_id \notin projects
    /\ Stored.assignee_id # NULL
    /\ Stored.assignee_id \notin users

\* C6 as stated: every stored ticket's title is non-empty and at most 300
\* characters long.
C6_TitleNonEmpty ==
    \A r \in tickets : r.title # NULL /\ Len(r.title) >= 1 /\ Len(r.title) <= 300

\* C6: every stored ticket's title is non-NULL and at most 300 characters
\* long; the empty string is a title the table stores.
C6_TitleBounded ==
    \A r \in tickets : r.title # NULL /\ Len(r.title) <= 300

C6_Witness ==
    /\ IsWrite
    /\ Given("title")
    /\ Arg("title") = ""
    /\ Accepted
    /\ Stored.title = ""

\* C7: a ticket's id is generated when it is created, no two stored tickets
\* share an id, and an update changes no ticket's id.
C7_IdsUnique == \A a, b \in tickets : a.id = b.id => a = b

C7_IdStep ==
    /\ (last'.kind = "create" /\ last'.result = "ok") =>
          /\ last'.id \notin Ids(tickets)
          /\ Ids(tickets') = Ids(tickets) \cup {last'.id}
    /\ last'.kind = "update" =>
          /\ Ids(tickets') = Ids(tickets)
          /\ \A r \in tickets : r.id # last'.id => r \in tickets'

C7_Identity == []C7_IdsUnique /\ [][C7_IdStep]_vars

C7_Witness ==
    /\ Cardinality(tickets) = 2
    /\ Cardinality(Ids(tickets)) = 2
    /\ last.kind = "update"
    /\ Accepted

\* C8: a change to the Project or User set leaves every stored ticket
\* unchanged, and a change to the tickets leaves both sets unchanged.
C8_Step ==
    /\ (projects' # projects \/ users' # users) => tickets' = tickets
    /\ tickets' # tickets => (projects' = projects /\ users' = users)

C8_NoCascade == [][C8_Step]_vars

C8_Witness ==
    /\ last.kind = "project_deleted"
    /\ \E r \in tickets : r.project_id = Arg("project_id")
    /\ Arg("project_id") \notin projects

\* C9: a write that fails validation leaves the stored tickets exactly as
\* they were: nothing is created and the target of an update keeps every
\* field.
C9_Step == last'.result = "ValidationError" => tickets' = tickets

C9_RejectedWriteNoEffect == [][C9_Step]_vars

C9_Witness ==
    /\ last.kind = "update"
    /\ Rejected
    /\ Given("title")
    /\ Len(Arg("title")) = 301
    /\ Given("status")
    /\ Arg("status") = "DONE"
    /\ Stored.status # "DONE"

\* C10: writes on distinct tickets need no coordination: the outcome of each
\* depends only on its arguments and its own row, a write leaves every other
\* row as it was, and the table is what any serial order of the executed
\* writes produces.
RECURSIVE Serial(_, _)
Serial(rows, ops) ==
    IF ops = <<>> THEN rows ELSE Serial(Exec(rows, Head(ops)).rows, Tail(ops))

Orders(S) ==
    {s \in [1..Cardinality(S) -> S] : \A i, j \in DOMAIN s : s[i] = s[j] => i = j}

OwnRow(rows, op) == {r \in rows : r.id = op.id}

C10_Serial ==
    /\ \A op \in DOMAIN outcome : outcome[op] = Exec(OwnRow(base, op), op).result
    /\ \A s \in Orders(batch \ pending) : Serial(base, s) = tickets

C10_Step ==
    \A r \in tickets :
        (\A op \in pending \ pending' : op.id # r.id) => r \in tickets'

C10_NoCoordination == []C10_Serial /\ [][C10_Step]_vars

C10_Witness ==
    /\ pending = {}
    /\ Cardinality(batch) = 2
    /\ \E a, b \in batch :
        /\ a.kind = "create"
        /\ b.kind = "update"
        /\ outcome[a] = "ok"
        /\ outcome[b] = "ValidationError"
    /\ base # tickets

====
